---- MODULE Spec2Model ----
(***************************************************************************)
(* A model of RuptureGmf (gmf_calculator.py): the candidate store filled   *)
(* by calculate / rsa2mmi, the misfit evaluation calc_rmse, the best-fit   *)
(* selection find_best_fit, the acceptance region uncertainty_model and    *)
(* the raw data of uncertainty_slice.  calculate_from_rupture, which only   *)
(* fills the scenario attributes, is left out.                             *)
(*                                                                         *)
(* Numbers.  Every quantity the class computes is a non-negative rational  *)
(* or the square root of one.  A rational is a normalised pair <<n, d>>    *)
(* with d > 0; a real is a record [rad, root]: the rational rad itself     *)
(* when root is FALSE, its square root when root is TRUE.  Comparisons of  *)
(* reals go through their squares, so they are exact.                      *)
(*                                                                         *)
(* Attributes.  A Python attribute that may not exist yet is a sequence of *)
(* length 0 (absent) or 1 (present, holding the value).                    *)
(*                                                                         *)
(* Indices are 1-based here and 0-based in the source.                     *)
(***************************************************************************)
EXTENDS Integers, Sequences, FiniteSets, TLC

VARIABLES
    sources,           \* self.sources, flattened: the ruptures iter_ruptures yields, in order
    sitecol,           \* self.sitecol: the number of sites
    rupture_list,      \* self.rupture_list
    gmf_list,          \* self.gmf_list
    mmi_list,          \* self.mmi_list
    sum_squares_list,  \* self.sum_squares_list (attribute, may be absent)
    rmse,              \* self.rmse             (attribute, may be absent)
    mmi_obs,           \* self.mmi_obs          (attribute, may be absent)
    best_rupture,      \* self.best_rupture     (attribute, may be absent)
    min_rmse,          \* self.min_rmse         (attribute, may be absent)
    sigma,             \* self.sigma            (attribute, may be absent)
    uncert_fun,        \* self.uncert_fun       (attribute, may be absent)
    fitted_ruptures,   \* self.fitted_ruptures  (attribute, may be absent)
    fitted_range,      \* self.min_mag .. self.max_dip (attributes, set together)
    call,              \* the most recent call: its name, arguments and the exception it raised
    ret                \* what the most recent call returned (uncertainty_slice alone returns data)

vars == <<sources, sitecol, rupture_list, gmf_list, mmi_list, sum_squares_list,
          rmse, mmi_obs, best_rupture, min_rmse, sigma, uncert_fun,
          fitted_ruptures, fitted_range, call, ret>>

-----------------------------------------------------------------------------
(* Bounds of the model. *)

\* the longest rupture catalogue the sources yield
MaxRup == 2

\* how many times the catalogue may be appended to the store
MaxCalc == 1

\* how many catalogues of intensity fields mmi_list may come to hold
MaxMmi == 2

\* the longest rupture catalogue of a slicing run
MaxSliceRup == 3

-----------------------------------------------------------------------------
(* Exact arithmetic. *)

Abs(n) == IF n < 0 THEN -n ELSE n

RECURSIVE GCD(_, _)
GCD(a, b) == IF b = 0 THEN a ELSE GCD(b, a % b)

Rat(n, d) ==
    LET g == GCD(Abs(n), d)
    IN  <<n \div g, d \div g>>

RAdd(p, q) == Rat(p[1] * q[2] + q[1] * p[2], p[2] * q[2])

RSub(p, q) == Rat(p[1] * q[2] - q[1] * p[2], p[2] * q[2])

RMul(p, q) == Rat(p[1] * q[1], p[2] * q[2])

RDiv(p, q) == Rat(p[1] * q[2], p[2] * q[1])

\* p < q, over the least common denominator
RLess(p, q) ==
    LET g == GCD(p[2], q[2])
    IN  p[1] * (q[2] \div g) < q[1] * (p[2] \div g)

Plain(q) == [rad |-> q, root |-> FALSE]

\* np.sqrt of a rational
np_sqrt(q) == [rad |-> q, root |-> TRUE]

\* np.power(x, 2) of a real
Sq(x) == IF x.root THEN x.rad ELSE RMul(x.rad, x.rad)

\* x < y and x == y for non-negative reals
Lt(x, y) == RLess(Sq(x), Sq(y))

Eq(x, y) == Sq(x) = Sq(y)

-----------------------------------------------------------------------------
(* Attributes and sequences. *)

Unset == <<>>

Has(a) == a # Unset

Val(a) == a[1]

Range(s) == {s[i] : i \in 1..Len(s)}

\* the subsequence of s at the increasing positions in the set idx
RECURSIVE Pick(_, _)
Pick(s, idx) ==
    IF idx = {} THEN <<>>
    ELSE LET m == CHOOSE i \in idx : \A j \in idx : j <= i
         IN  Append(Pick(s, idx \ {m}), s[m])

\* min(...) of a non-empty sequence of reals
MinReal(s) == s[CHOOSE i \in 1..Len(s) : \A j \in 1..Len(s) : ~Lt(s[j], s[i])]

\* a selector that keeps the last position holding the minimum
argmin_last(s) ==
    CHOOSE i \in 1..Len(s) :
        /\ \A j \in 1..Len(s) : ~Lt(s[j], s[i])
        /\ \A j \in (i + 1)..Len(s) : Lt(s[i], s[j])

\* np.argmin: the first position holding the minimum
argmin(s) ==
    CHOOSE i \in 1..Len(s) :
        /\ \A j \in 1..Len(s) : ~Lt(s[j], s[i])
        /\ \A j \in 1..(i - 1) : Lt(s[i], s[j])

-----------------------------------------------------------------------------
(* The collaborators: ruptures, the ground-motion engine, the converter. *)

ParamNames == {"mag", "longitude", "latitude", "depth", "strike", "dip"}

\* rupture parameters read by uncertainty_model and uncertainty_slice
Param(rup, p) ==
    CASE p = "mag"       -> rup.mag
      [] p = "longitude" -> rup.longitude
      [] p = "latitude"  -> rup.latitude
      [] p = "depth"     -> rup.depth
      [] p = "strike"    -> rup.strike
      [] p = "dip"       -> rup.dip

\* a rupture as iter_ruptures yields it: its parameters, and the shaking it
\* causes at the first site (near) and at every other site (far)
Rupture(m, lo, de, ne, fa) ==
    [mag |-> m, longitude |-> lo, latitude |-> -8, depth |-> de,
     strike |-> 0, dip |-> 90, near |-> ne, far |-> fa]

\* the rupture object appended to rupture_list; uid is the object's identity
Stored(rup, id) ==
    [uid |-> id, mag |-> rup.mag, longitude |-> rup.longitude,
     latitude |-> rup.latitude, depth |-> rup.depth, strike |-> rup.strike,
     dip |-> rup.dip, near |-> rup.near, far |-> rup.far]

\* GmfComputer(rupture, sitecol, ...).compute(gsim, 1).flatten()
GmfCompute(rup, nsites) == [s \in 1..nsites |-> IF s = 1 THEN rup.near ELSE rup.far]

\* the step of the intensity scale between the spectral level and the MMI
MmiOffset == 4

\* rsa2mmi8(gmf, period = 1.0), elementwise
rsa2mmi8(gmf) == [s \in 1..Len(gmf) |-> gmf[s] + MmiOffset]

-----------------------------------------------------------------------------
(* Misfit: calc_sum_squares_mmi, calc_sum_squares_mmi_weighted. *)

\* numpy broadcasting of two one-dimensional arrays
Broadcastable(a, b) == Len(a) = Len(b) \/ Len(a) = 1 \/ Len(b) = 1

BLen(a, b) == IF Len(a) >= Len(b) THEN Len(a) ELSE Len(b)

At(a, s) == IF Len(a) = 1 THEN a[1] ELSE a[s]

\* (mmi - mmi_obs)**2 at position s of the broadcast result
SqDiff(mmi, obs, s) == (At(mmi, s) - At(obs, s)) * (At(mmi, s) - At(obs, s))

RECURSIVE SumTo(_, _, _)
SumTo(mmi, obs, n) ==
    IF n = 0 THEN 0 ELSE SumTo(mmi, obs, n - 1) + SqDiff(mmi, obs, n)

\* np.sum((mmi - mmi_obs)**2)
sum_squares_plain(mmi, obs) == Rat(SumTo(mmi, obs, BLen(mmi, obs)), 1)

RECURSIVE SumSeq(_, _)
SumSeq(w, n) == IF n = 0 THEN 0 ELSE SumSeq(w, n - 1) + w[n]

\* weights*(1./sum(weights))
Normalise(w) == [s \in 1..Len(w) |-> Rat(w[s], SumSeq(w, Len(w)))]

RECURSIVE DotTo(_, _, _, _)
DotTo(nw, mmi, obs, n) ==
    IF n = 0 THEN Rat(0, 1)
    ELSE RAdd(DotTo(nw, mmi, obs, n - 1), RMul(nw[n], Rat(SqDiff(mmi, obs, n), 1)))

\* np.dot(weights, (mmi - mmi_obs)**2) with the normalised weights
sum_squares_weighted(mmi, obs, w) == DotTo(Normalise(w), mmi, obs, Len(w))

\* whether one candidate's sum of squares can be computed at all
\* (weights = <<>> is weights = None; <<w>> is a weight list w)
ShapesOk(mmi, obs, weights) ==
    /\ Broadcastable(mmi, obs)
    /\ Has(weights) => Len(Val(weights)) = BLen(mmi, obs)

SumSquares(mmi, obs, weights) ==
    IF Has(weights) THEN sum_squares_weighted(mmi, obs, Val(weights))
    ELSE sum_squares_plain(mmi, obs)

\* a weighted misfit left without its square root
rmse_weighted_squared(ss) == Plain(ss)

\* the rmse entry calc_rmse derives from one sum of squares
rmse_weighted(ss) == np_sqrt(ss)

rmse_plain(ss, obs) == np_sqrt(RDiv(ss, Rat(Len(obs), 1)))

RmseOf(ss, obs, weights) ==
    IF Has(weights) THEN rmse_weighted(ss) ELSE rmse_plain(ss, obs)

-----------------------------------------------------------------------------
(* Construction. *)

SiteCounts == {1, 2, 7}

\* the ruptures a fitting run draws its catalogue from: one hypocentre, three
\* patterns of shaking
FitCatalogue == {Rupture(6, 110, 10, 0, 1), Rupture(6, 110, 10, 1, 1), Rupture(6, 110, 10, 1, 0)}

\* the ruptures a slicing run draws its catalogue from: two magnitudes, and
\* two ruptures that share magnitude and depth
SliceCatalogue == {Rupture(6, 110, 10, 0, 1), Rupture(6, 110, 10, 1, 1),
                   Rupture(7, 110, 10, 1, 1)}

Catalogues(cat, longest) == UNION {[1..n -> cat] : n \in 1..longest}

NoCall == [op |-> "init", err |-> "none", arg |-> <<>>]

InitWith(cat, longest, sites) ==
    /\ sources \in Catalogues(cat, longest)
    /\ sitecol \in sites
    /\ rupture_list = <<>>
    /\ gmf_list = <<>>
    /\ mmi_list = <<>>
    /\ sum_squares_list = Unset
    /\ rmse = Unset
    /\ mmi_obs = Unset
    /\ best_rupture = Unset
    /\ min_rmse = Unset
    /\ sigma = Unset
    /\ uncert_fun = Unset
    /\ fitted_ruptures = Unset
    /\ fitted_range = Unset
    /\ call = NoCall
    /\ ret = Unset

Init == InitWith(FitCatalogue, MaxRup, SiteCounts)

Called(name, e, a) == [op |-> name, err |-> e, arg |-> a]

-----------------------------------------------------------------------------
(* The candidate store. *)

AppendRuptures ==
    /\ Len(rupture_list) + Len(sources) <= MaxCalc * Len(sources)
    /\ rupture_list' = rupture_list \o
           [k \in 1..Len(sources) |-> Stored(sources[k], Len(rupture_list) + k)]
    /\ gmf_list' = gmf_list \o
           [k \in 1..Len(sources) |-> GmfCompute(sources[k], sitecol)]
    /\ ret' = Unset
    /\ UNCHANGED <<sources, sitecol, mmi_list, sum_squares_list, rmse, mmi_obs,
                   best_rupture, min_rmse, sigma, uncert_fun, fitted_ruptures,
                   fitted_range>>

calculate_from_pts ==
    /\ AppendRuptures
    /\ call' = Called("calculate_from_pts", "none", <<>>)

calculate ==
    /\ AppendRuptures
    /\ call' = Called("calculate", "none", <<>>)

rsa2mmi ==
    /\ Len(mmi_list) + Len(gmf_list) <= MaxMmi * Len(sources)
    /\ mmi_list' = mmi_list \o [k \in 1..Len(gmf_list) |-> rsa2mmi8(gmf_list[k])]
    /\ call' = Called("rsa2mmi", "none", <<>>)
    /\ ret' = Unset
    /\ UNCHANGED <<sources, sitecol, rupture_list, gmf_list, sum_squares_list,
                   rmse, mmi_obs, best_rupture, min_rmse, sigma, uncert_fun,
                   fitted_ruptures, fitted_range>>

-----------------------------------------------------------------------------
(* Misfit evaluation. *)

\* the intensity levels observations take, and the weights sites are given
ObsLevels == {4, 5}

WeightLevels == {1, 2}

\* an observation vector: one value at the first site, another elsewhere
Observations == {[s \in 1..n |-> IF s = 1 THEN a ELSE 5] : n \in SiteCounts, a \in ObsLevels}

\* weights = None, or one weight per site
WeightChoices ==
    {Unset} \cup {<<[s \in 1..n |-> IF s = 1 THEN w ELSE 1]>> : n \in SiteCounts, w \in WeightLevels}

\* lines 201-206: the sums of squares, candidate by candidate, then self.rmse;
\* the first candidate whose shapes do not fit raises ValueError, leaving
\* the sums computed so far in self.sum_squares_list and self.rmse untouched
calc_rmse_compute(obs, weights) ==
    LET bad  == {k \in 1..Len(mmi_list) : ~ShapesOk(mmi_list[k], obs, weights)}
        stop == IF bad = {} THEN Len(mmi_list) + 1
                ELSE CHOOSE k \in bad : \A j \in bad : k <= j
        done == [k \in 1..(stop - 1) |-> SumSquares(mmi_list[k], obs, weights)]
    IN  /\ sum_squares_list' = <<done>>
        /\ IF bad = {}
           THEN /\ rmse' = <<[k \in 1..Len(done) |-> RmseOf(done[k], obs, weights)]>>
                /\ call' = Called("calc_rmse", "none", weights)
           ELSE /\ rmse' = rmse
                /\ call' = Called("calc_rmse", "ValueError", weights)

calc_rmse(obs, weights) ==
    /\ mmi_obs' = <<obs>>
    /\ IF Has(sum_squares_list)
       THEN /\ UNCHANGED <<sum_squares_list, rmse>>
            /\ call' = Called("calc_rmse", "none", weights)
       ELSE calc_rmse_compute(obs, weights)
    /\ ret' = Unset
    /\ UNCHANGED <<sources, sitecol, rupture_list, gmf_list, mmi_list,
                   best_rupture, min_rmse, sigma, uncert_fun, fitted_ruptures,
                   fitted_range>>

-----------------------------------------------------------------------------
(* Best fit. *)

find_best_fit ==
    /\ IF ~Has(rmse)
       THEN /\ call' = Called("find_best_fit", "AttributeError", <<>>)
            /\ UNCHANGED <<best_rupture, min_rmse>>
       ELSE IF Len(Val(rmse)) = 0
       THEN /\ call' = Called("find_best_fit", "ValueError", <<>>)
            /\ UNCHANGED <<best_rupture, min_rmse>>
       ELSE LET index == argmin(Val(rmse))
            IN  IF index > Len(rupture_list)
                THEN /\ call' = Called("find_best_fit", "IndexError", <<>>)
                     /\ UNCHANGED <<best_rupture, min_rmse>>
                ELSE /\ best_rupture' = <<rupture_list[index]>>
                     /\ min_rmse' = <<Val(rmse)[index]>>
                     /\ call' = Called("find_best_fit", "none", <<>>)
    /\ ret' = Unset
    /\ UNCHANGED <<sources, sitecol, rupture_list, gmf_list, mmi_list,
                   sum_squares_list, rmse, mmi_obs, sigma, uncert_fun,
                   fitted_ruptures, fitted_range>>

-----------------------------------------------------------------------------
(* The acceptance region. *)

\* the number of free rupture parameters
NPar == 6

\* the sentinel 1e24 of the fallback; it is far above every misfit, and is
\* kept within 32-bit integers
Sentinel == 10000

\* the number of standard deviations norm.ppf(0.975) lies above the mean:
\* 1.96 = Z975Num / Z975Den
Z975Num == 49

Z975Den == 25

\* norm(loc, scale)
norm(l, s) == [loc |-> l, scale |-> s]

\* norm(loc, scale).ppf(0.975): loc + add, or nan when the scale is not positive
ppf975(fun) ==
    [nan |-> ~(fun.scale[1] > 0), loc |-> fun.loc, add |-> RMul(Rat(Z975Num, Z975Den), fun.scale)]

\* x < t for a real x and a threshold t = loc + add; a comparison with nan is false
BelowThreshold(x, t) ==
    /\ ~t.nan
    /\ LET X == Sq(x)
           M == Sq(t.loc)
           E == RSub(RSub(X, M), RMul(t.add, t.add))
       IN  \/ ~RLess(M, X)
           \/ E[1] < 0
           \/ RLess(RMul(E, E), RMul(Rat(4, 1), RMul(RMul(t.add, t.add), M)))

\* sigma as line 242 computes it from the best misfit and the observation count
sigma_of(best, n) == RMul(Rat(1, n - NPar), Sq(best))

\* the (min, max) of parameter p over a non-empty list of ruptures
RangeOf(rups, p) ==
    LET vals == {Param(rups[i], p) : i \in 1..Len(rups)}
    IN  <<CHOOSE v \in vals : \A u \in vals : v <= u,
          CHOOSE v \in vals : \A u \in vals : v >= u>>

\* the candidates uncertainty_model accepts, as positions of self.rmse
accepted_fallback(r) == {i \in 1..Len(r) : Lt(r[i], Plain(Rat(Sentinel, 1)))}

accepted_model(r, fun) == {i \in 1..Len(r) : BelowThreshold(r[i], ppf975(fun))}

\* lines 249-279 for the accepted positions idx: the new fitted_ruptures,
\* the new parameter ranges and the exception raised on the way
Fitted(idx) ==
    LET over == {i \in idx : i > Len(rupture_list)}
        good == IF over = {} THEN idx
                ELSE {i \in idx : \A j \in over : i < j}
        rups == Pick(rupture_list, good)
    IN  IF over # {}
        THEN [err |-> "IndexError", fitted |-> <<rups>>, range |-> fitted_range]
        ELSE IF rups = <<>>
        THEN [err |-> "ValueError", fitted |-> <<rups>>, range |-> fitted_range]
        ELSE [err |-> "none", fitted |-> <<rups>>,
              range |-> <<[p \in ParamNames |-> RangeOf(rups, p)]>>]

uncertainty_model ==
    /\ IF ~Has(mmi_obs) \/ ~Has(rmse)
       THEN /\ call' = Called("uncertainty_model", "AttributeError", <<>>)
            /\ UNCHANGED <<sigma, uncert_fun, fitted_ruptures, fitted_range>>
       ELSE IF Len(Val(mmi_obs)) <= NPar
       THEN IF Len(Val(rmse)) = 0
            THEN /\ call' = Called("uncertainty_model", "ValueError", <<>>)
                 /\ UNCHANGED <<sigma, uncert_fun, fitted_ruptures, fitted_range>>
            ELSE LET f == Fitted(accepted_fallback(Val(rmse)))
                 IN  /\ fitted_ruptures' = f.fitted
                     /\ fitted_range' = f.range
                     /\ call' = Called("uncertainty_model", f.err, <<>>)
                     /\ UNCHANGED <<sigma, uncert_fun>>
       ELSE IF Len(Val(rmse)) = 0
            THEN /\ call' = Called("uncertainty_model", "ValueError", <<>>)
                 /\ UNCHANGED <<sigma, uncert_fun, fitted_ruptures, fitted_range>>
            ELSE LET s   == sigma_of(MinReal(Val(rmse)), Len(Val(mmi_obs)))
                     fun == norm(MinReal(Val(rmse)), s)
                     f   == Fitted(accepted_model(Val(rmse), fun))
                 IN  /\ sigma' = <<s>>
                     /\ uncert_fun' = <<fun>>
                     /\ fitted_ruptures' = f.fitted
                     /\ fitted_range' = f.range
                     /\ call' = Called("uncertainty_model", f.err, <<>>)
    /\ ret' = Unset
    /\ UNCHANGED <<sources, sitecol, rupture_list, gmf_list, mmi_list,
                   sum_squares_list, rmse, mmi_obs, best_rupture, min_rmse>>

-----------------------------------------------------------------------------
(* Parameter slices: the raw data of uncertainty_slice. *)

\* the set s of integers as an increasing sequence (np.unique)
RECURSIVE Sorted(_)
Sorted(s) ==
    IF s = {} THEN <<>>
    ELSE LET m == CHOOSE v \in s : \A u \in s : u <= v
         IN  Append(Sorted(s \ {m}), m)

\* subset positions applied to the unfiltered misfit sequence
slice_min_unfiltered(rm, subset, i) == MinReal(Pick(rm, i))

\* line 348: the lowest misfit among the positions i of the subset
slice_min(rm, subset, i) == MinReal(Pick(subset, i))

\* lines 331-350 for one xi: the (xi, yi, misfit) triples, yi ascending
RECURSIVE SliceRow(_, _, _, _, _, _, _)
SliceRow(rm, xvalues, yvalues, subset, xi, uy, n) ==
    IF n = 0 THEN <<>>
    ELSE LET i == {k \in 1..Len(xvalues) : xvalues[k] = xi /\ yvalues[k] = uy[n]}
             before == SliceRow(rm, xvalues, yvalues, subset, xi, uy, n - 1)
         IN  IF i # {}
             THEN Append(before, <<xi, uy[n], slice_min(rm, subset, i)>>)
             ELSE before

RECURSIVE SliceRows(_, _, _, _, _, _, _)
SliceRows(rm, xvalues, yvalues, subset, ux, uy, n) ==
    IF n = 0 THEN <<>>
    ELSE SliceRows(rm, xvalues, yvalues, subset, ux, uy, n - 1)
         \o SliceRow(rm, xvalues, yvalues, subset, ux[n], uy, Len(uy))

\* line 314: the positions of the ruptures whose z-parameter equals zvalue
slice_indices(z, zvalue) ==
    {i \in 1..Len(rupture_list) : Param(rupture_list[i], z) = zvalue}

\* lines 316-354: xs, ys and rmse_subset as returned
slice_data(x, y, z, zvalue) ==
    LET indices == slice_indices(z, zvalue)
        chosen  == Pick(rupture_list, indices)
        xvalues == [k \in 1..Len(chosen) |-> Param(chosen[k], x)]
        yvalues == [k \in 1..Len(chosen) |-> Param(chosen[k], y)]
        subset  == Pick(Val(rmse), indices)
        ux      == Sorted(Range(xvalues))
        uy      == Sorted(Range(yvalues))
        rows    == SliceRows(Val(rmse), xvalues, yvalues, subset, ux, uy, Len(ux))
    IN  [xs |-> [k \in 1..Len(rows) |-> rows[k][1]],
         ys |-> [k \in 1..Len(rows) |-> rows[k][2]],
         rmse_subset |-> [k \in 1..Len(rows) |-> rows[k][3]]]

\* line 368: the numbers of grid points np.mgrid lays between the lowest and
\* the highest x (step 0.02) and y (step 0.01) of the chosen candidates
grid_shape(x, y, z, zvalue) ==
    LET chosen == Pick(rupture_list, slice_indices(z, zvalue))
        xv == {Param(chosen[k], x) : k \in 1..Len(chosen)}
        yv == {Param(chosen[k], y) : k \in 1..Len(chosen)}
        lo(v) == CHOOSE a \in v : \A b \in v : a <= b
        hi(v) == CHOOSE a \in v : \A b \in v : a >= b
    IN  <<(hi(xv) - lo(xv)) * 50, (hi(yv) - lo(yv)) * 100>>

\* line 377: the two contour levels handed to plt.contour, when both
\* self.sigma and self.uncert_fun exist
contour_levels ==
    IF Has(sigma) /\ Has(uncert_fun)
    THEN <<Plain(Val(sigma)), ppf975(Val(uncert_fun))>>
    ELSE <<>>

\* Data retrieval fails when self.rmse is absent (line 320) or shorter than
\* a chosen position (line 320); grid construction fails when no candidate
\* is chosen (min of an empty array, line 368).  Drawing (lines 375-395)
\* changes nothing the class holds: the levels it is handed are recorded.
uncertainty_slice(x, y, z, zvalue) ==
    LET indices == slice_indices(z, zvalue)
        a == <<x, y, z, zvalue>>
    IN  /\ IF ~Has(rmse)
           THEN /\ call' = Called("uncertainty_slice", "AttributeError", a)
                /\ ret' = Unset
           ELSE IF \E i \in indices : i > Len(Val(rmse))
           THEN /\ call' = Called("uncertainty_slice", "IndexError", a)
                /\ ret' = Unset
           ELSE IF indices = {}
           THEN /\ call' = Called("uncertainty_slice", "ValueError", a)
                /\ ret' = Unset
           ELSE /\ call' = Called("uncertainty_slice", "none", a)
                /\ ret' = <<[data |-> slice_data(x, y, z, zvalue),
                             grid |-> grid_shape(x, y, z, zvalue),
                             levels |-> contour_levels]>>
        /\ UNCHANGED <<sources, sitecol, rupture_list, gmf_list, mmi_list,
                       sum_squares_list, rmse, mmi_obs, best_rupture, min_rmse,
                       sigma, uncert_fun, fitted_ruptures, fitted_range>>

\* the slices requested: (x, y, z) and the values z is fixed at
SliceAxes == {<<"depth", "latitude", "mag">>, <<"mag", "depth", "longitude">>,
              <<"depth", "mag", "mag">>}

SliceValues == {6, 7, 110}

-----------------------------------------------------------------------------
(* Specifications. *)

\* the candidate store alone
NextStore ==
    \/ calculate
    \/ calculate_from_pts
    \/ rsa2mmi

SpecStore == Init /\ [][NextStore]_vars

\* the store and the misfit, over every observation vector and weighting
NextMisfit ==
    \/ calculate
    \/ rsa2mmi
    \/ \E obs \in Observations, weights \in WeightChoices : calc_rmse(obs, weights)

SpecMisfit == Init /\ [][NextMisfit]_vars

\* the fitting run: store, unweighted misfit, best fit, acceptance region
\* and one slice of it
Next ==
    \/ calculate
    \/ rsa2mmi
    \/ \E obs \in Observations : calc_rmse(obs, Unset)
    \/ find_best_fit
    \/ uncertainty_model
    \/ uncertainty_slice("depth", "latitude", "mag", 6)

Spec == Init /\ [][Next]_vars

\* runs whose candidates hold one value or seven
InitWeighted == InitWith(FitCatalogue, MaxRup, {1, 7})

\* weighted misfits: seven weights, observations at every site or one for all
WeightedObservations == {obs \in Observations : Len(obs) = 7 \/ obs = <<5>>}

SevenWeights == {w \in WeightChoices : Has(w) /\ Len(Val(w)) = 7}

NextWeighted ==
    \/ calculate
    \/ rsa2mmi
    \/ \E obs \in WeightedObservations, weights \in SevenWeights : calc_rmse(obs, weights)

SpecWeighted == InitWeighted /\ [][NextWeighted]_vars

\* the best fit of unweighted misfits
NextBest ==
    \/ calculate
    \/ rsa2mmi
    \/ \E obs \in Observations : calc_rmse(obs, Unset)
    \/ find_best_fit

SpecBest == Init /\ [][NextBest]_vars

\* the slicing run
SevenObservations == {obs \in Observations : Len(obs) = 7}

InitSlice == InitWith(SliceCatalogue, MaxSliceRup, {7})

NextSlice ==
    \/ calculate
    \/ rsa2mmi
    \/ \E obs \in SevenObservations : calc_rmse(obs, Unset)
    \/ \E a \in SliceAxes, zvalue \in SliceValues : uncertainty_slice(a[1], a[2], a[3], zvalue)

SpecSlice == InitSlice /\ [][NextSlice]_vars

-----------------------------------------------------------------------------
(* Properties of the candidate store. *)

\* C10: after every rsa2mmi call the three sequences of the store have one
\* length, and mmi_list[i] is the intensity field converted from gmf_list[i],
\* the ground motion of rupture_list[i].
C10_StoreAligned ==
    call.op = "rsa2mmi" =>
        /\ Len(mmi_list) = Len(gmf_list)
        /\ Len(gmf_list) = Len(rupture_list)
        /\ \A i \in 1..Len(mmi_list) :
               /\ mmi_list[i] = rsa2mmi8(gmf_list[i])
               /\ gmf_list[i] = GmfCompute(rupture_list[i], sitecol)

-----------------------------------------------------------------------------
(* Properties of the misfit. *)

\* the misfit sequence of the current mmi_list against obs and weights
MisfitOf(obs, weights) ==
    [k \in 1..Len(mmi_list) |->
        RmseOf(SumSquares(mmi_list[k], obs, weights), obs, weights)]

\* C1: after each calc_rmse call, self.rmse is the misfit of the current
\* mmi_list against the observations and weights of that call.
C1_RmseIsCurrent ==
    (call.op = "calc_rmse" /\ call.err = "none") =>
        /\ Has(rmse)
        /\ \A k \in 1..Len(mmi_list) : ShapesOk(mmi_list[k], Val(mmi_obs), call.arg)
        /\ Val(rmse) = MisfitOf(Val(mmi_obs), call.arg)

\* a calc_rmse step that evaluates the misfit (no sum of squares existed)
Evaluates == call'.op = "calc_rmse" /\ ~Has(sum_squares_list) /\ Has(sum_squares_list')

AllEqual(w) == \A s \in 1..Len(w) : w[s] = w[1]

\* the unweighted misfit of one candidate
Unweighted(mmi, obs) == rmse_plain(sum_squares_plain(mmi, obs), obs)

RECURSIVE WeightedTo(_, _, _, _)
WeightedTo(w, mmi, obs, n) ==
    IF n = 0 THEN 0 ELSE WeightedTo(w, mmi, obs, n - 1) + w[n] * SqDiff(mmi, obs, n)

\* the sum over sites of normalised weight times squared residual
WeightedMean(mmi, obs, w) == Rat(WeightedTo(w, mmi, obs, Len(w)), SumSeq(w, Len(w)))

\* a weighted evaluation that succeeded
EvaluatesWeighted == Evaluates /\ Has(call'.arg) /\ call'.err = "none"

\* C3, as claimed: a weighted evaluation stores, for each candidate, the
\* weighted sum of squared residuals itself, with no square root; with equal
\* weights that is the square of the candidate's unweighted misfit.
C3_WeightedNotRooted ==
    [][EvaluatesWeighted =>
         \A k \in 1..Len(mmi_list) :
            /\ Eq(Val(rmse')[k],
                  Plain(WeightedMean(mmi_list[k], Val(mmi_obs'), Val(call'.arg))))
            /\ AllEqual(Val(call'.arg)) =>
                  Eq(Val(rmse')[k], Plain(Sq(Unweighted(mmi_list[k], Val(mmi_obs')))))]_vars

\* C3, amended: a weighted evaluation stores, for each candidate, the square
\* root of the weighted sum of squared residuals; with equal weights and as
\* many observations as weights that is the candidate's unweighted misfit.
C3_WeightedRooted ==
    [][EvaluatesWeighted =>
         /\ Len(Val(rmse')) = Len(mmi_list)
         /\ \A k \in 1..Len(mmi_list) :
               /\ Eq(Val(rmse')[k],
                     np_sqrt(WeightedMean(mmi_list[k], Val(mmi_obs'), Val(call'.arg))))
               /\ (AllEqual(Val(call'.arg)) /\ Len(Val(mmi_obs')) = Len(Val(call'.arg))) =>
                     Eq(Val(rmse')[k], Unweighted(mmi_list[k], Val(mmi_obs')))]_vars

\* a weighted misfit with equal weights was stored that differs from its own
\* square, next to one with unequal weights elsewhere in the run
C3_Witness ==
    /\ call.op = "calc_rmse"
    /\ call.err = "none"
    /\ Has(call.arg)
    /\ AllEqual(Val(call.arg))
    /\ Len(Val(mmi_obs)) = Len(Val(call.arg))
    /\ Has(rmse)
    /\ Len(Val(rmse)) = Len(mmi_list)
    /\ \E k \in 1..Len(mmi_list) :
          /\ Val(rmse)[k] = np_sqrt(WeightedMean(mmi_list[k], Val(mmi_obs), Val(call.arg)))
          /\ Val(rmse)[k].rad \notin {Rat(0, 1), Rat(1, 1)}

\* C9: a misfit evaluation over candidates one of whose intensity fields
\* differs in length from the observations (or, weighted, from the weights)
\* raises an error and produces no misfit sequence.
C9_MismatchIsFatal ==
    [][(Evaluates /\ \E k \in 1..Len(mmi_list) :
                        \/ Len(mmi_list[k]) # Len(Val(mmi_obs'))
                        \/ Has(call'.arg) /\ Len(mmi_list[k]) # Len(Val(call'.arg)))
        => (call'.err # "none" /\ ~Has(rmse'))]_vars

-----------------------------------------------------------------------------
(* Properties of the best fit and of the acceptance region. *)

\* C8: find_best_fit on a non-empty misfit sequence succeeds, min_rmse is the
\* minimum of self.rmse, and best_rupture is the rupture at the first
\* position holding that minimum.
C8_BestFitFirstMinimum ==
    (call.op = "find_best_fit" /\ Has(rmse) /\ Len(Val(rmse)) > 0) =>
        /\ call.err = "none"
        /\ Has(min_rmse)
        /\ Has(best_rupture)
        /\ \A j \in 1..Len(Val(rmse)) : ~Lt(Val(rmse)[j], Val(min_rmse))
        /\ \E i \in 1..Len(Val(rmse)) :
              /\ Val(min_rmse) = Val(rmse)[i]
              /\ \A j \in 1..(i - 1) : Lt(Val(min_rmse), Val(rmse)[j])
              /\ i <= Len(rupture_list)
              /\ Val(best_rupture) = rupture_list[i]

\* find_best_fit chose between two candidates tied at the minimum
C8_Witness ==
    /\ call.op = "find_best_fit"
    /\ call.err = "none"
    /\ Has(best_rupture)
    /\ \E i, j \in 1..Len(Val(rmse)) :
          /\ i < j
          /\ Eq(Val(rmse)[i], Val(min_rmse))
          /\ Eq(Val(rmse)[j], Val(min_rmse))
          /\ j <= Len(rupture_list)

\* C2: after find_best_fit and uncertainty_model on a non-empty misfit
\* sequence, the best rupture (the one at argmin(rmse)) is in
\* fitted_ruptures, which is therefore not empty.
C2_BestFitAccepted ==
    (call.op = "uncertainty_model" /\ Has(best_rupture) /\ Has(rmse)
        /\ Len(Val(rmse)) > 0) =>
        /\ Has(fitted_ruptures)
        /\ Val(best_rupture) \in Range(Val(fitted_ruptures))

\* C4: with more than six observations, uncertainty_model centres the normal
\* distribution at the best misfit and gives it the standard deviation sigma
\* with sigma^2 = min_misfit^2 / (N - 6); self.sigma is that same quantity.
C4_SigmaIsStdDev ==
    (call.op = "uncertainty_model" /\ Has(mmi_obs) /\ Len(Val(mmi_obs)) > NPar
        /\ Has(rmse) /\ Len(Val(rmse)) > 0) =>
        /\ Has(uncert_fun)
        /\ Has(sigma)
        /\ Eq(Val(uncert_fun).loc, MinReal(Val(rmse)))
        /\ RMul(Val(uncert_fun).scale, Val(uncert_fun).scale)
              = RDiv(Sq(MinReal(Val(rmse))), Rat(Len(Val(mmi_obs)) - NPar, 1))
        /\ Val(sigma) = Val(uncert_fun).scale

\* C5: after an uncertainty_model call that took the fallback (at most six
\* observations), the object exposes no sigma and no acceptance distribution.
C5_FallbackDetectable ==
    (call.op = "uncertainty_model" /\ Has(mmi_obs) /\ Len(Val(mmi_obs)) <= NPar
        /\ Has(rmse)) =>
        /\ ~Has(sigma)
        /\ ~Has(uncert_fun)

-----------------------------------------------------------------------------
(* Properties of the slices. *)

\* the candidates of the latest slice request, and those among them at (xv, yv)
SliceMatches == slice_indices(call.arg[3], call.arg[4])

SliceGroup(xv, yv) ==
    {i \in SliceMatches : /\ Param(rupture_list[i], call.arg[1]) = xv
                          /\ Param(rupture_list[i], call.arg[2]) = yv}

SlicePairs ==
    {<<Param(rupture_list[i], call.arg[1]), Param(rupture_list[i], call.arg[2])>> :
        i \in SliceMatches}

\* C6: a slice request over a store with its misfits evaluated, whose zvalue
\* matches no candidate, returns empty xs, ys and rmse_subset, and raises no
\* error.
C6_EmptySliceReturned ==
    (call.op = "uncertainty_slice" /\ rupture_list # <<>> /\ Has(rmse)
        /\ Len(Val(rmse)) = Len(rupture_list) /\ SliceMatches = {}) =>
        /\ call.err = "none"
        /\ Has(ret)
        /\ Val(ret).data.xs = <<>>
        /\ Val(ret).data.ys = <<>>
        /\ Val(ret).data.rmse_subset = <<>>

\* C7: the data a slice request returns holds one triple per distinct (x, y)
\* pair among the candidates whose z-parameter equals zvalue, and the misfit
\* of the triple is the lowest self.rmse among exactly the candidates with
\* that z value and that pair.
C7_SliceMinima ==
    (call.op = "uncertainty_slice" /\ call.err = "none") =>
        LET d == Val(ret).data
            n == Len(d.xs)
        IN  /\ SliceMatches # {}
            /\ Len(d.ys) = n
            /\ Len(d.rmse_subset) = n
            /\ n = Cardinality(SlicePairs)
            /\ {<<d.xs[k], d.ys[k]>> : k \in 1..n} = SlicePairs
            /\ \A k \in 1..n :
                  LET g == SliceGroup(d.xs[k], d.ys[k])
                  IN  /\ \E i \in g : d.rmse_subset[k] = Val(rmse)[i]
                      /\ \A i \in g : ~Lt(Val(rmse)[i], d.rmse_subset[k])

\* a slice was returned in which a pair collapses two candidates of unequal
\* misfit and the matching candidates are not the first ones of the store
C7_Witness ==
    /\ call.op = "uncertainty_slice"
    /\ call.err = "none"
    /\ Has(ret)
    /\ 1 \notin SliceMatches
    /\ \E k \in 1..Len(Val(ret).data.xs) :
          \E i, j \in SliceGroup(Val(ret).data.xs[k], Val(ret).data.ys[k]) :
              Lt(Val(rmse)[i], Val(rmse)[j])

====
